---- MODULE Spec2Model ----
\* Model of src/browser/Decorations/BufferDecorationRenderer.ts: the renderer
\* that keeps one DOM element per registered decoration, refreshed from a
\* coalesced animation-frame callback.
EXTENDS Integers, Sequences, FiniteSets, TLC

\* ------------------------------------------------------------------ bounds
NumDecorations == 2     \* decoration objects the registry can hand out
Rows == 2               \* _bufferService.rows
Cols == 3               \* _bufferService.cols
CellWidth == 2          \* _renderService.dimensions.actualCellWidth
CellHeight == 3         \* _renderService.dimensions.actualCellHeight
MaxCount == 2           \* saturation of the observation counters
MaxDisposeCalls == 1    \* calls of dispose() in one behaviour

Decorations == 1 .. NumDecorations

\* Scroll offsets (buffers.active.ydisp) and marker lines: with either offset
\* one of the two lines is inside [0, Rows) and the other is outside, once
\* below the viewport (line >= Rows) and once above it (line < 0).
YDisps == {0, 2}
MarkerLines == {1, Rows + 1}

\* An optional value (TypeScript `number | undefined`): <<>> is undefined.
Undefined == <<>>
Some(v) == <<v>>

\* decoration.options as the registry hands them out.
OptionSets ==
  { [x |-> Undefined,      width |-> Undefined, height |-> Undefined, anchor |-> "left"],
    [x |-> Some(Cols + 2), width |-> Some(0),   height |-> Some(2),   anchor |-> "right"] }

NoOptions == [x |-> Undefined, width |-> Undefined, height |-> Undefined, anchor |-> "left"]

Min(a, b) == IF a < b THEN a ELSE b

\* A map with no entry.
EmptyMap == [k \in {} |-> 0]
Without(f, k) == [j \in DOMAIN f \ {k} |-> f[j]]

\* ------------------------------------------------------------------- state
VARIABLES
  \* BufferDecorationRenderer
  containerAttached,    \* _container is a child of _screenElement
  decorationElements,   \* _decorationElements: decoration -> element
  animationFrame,       \* _animationFrame !== undefined
  altBufferIsActive,    \* _altBufferIsActive
  listening,            \* the listeners registered in the constructor are live
  \* host window and DOM
  rafCallbacks,         \* frame callbacks requested and not yet run
  containerChildren,    \* children of _container
  style,                \* element -> its style
  \* buffer service
  ydisp,                \* buffers.active.ydisp
  bufferIsAlt,          \* buffer === buffers.alt
  \* decoration service and its decorations
  decorations,          \* _decorationService.decorations, in registry order
  registered,           \* decoration -> it was registered at some time
  isDisposed,           \* decoration -> decoration.dispose() has run
  markerDisposed,       \* decoration -> decoration.marker.dispose() has run
  markerLine,           \* decoration -> decoration.marker.line
  options,              \* decoration -> decoration.options
  element,              \* decoration -> decoration.element
  onDisposeListeners,   \* decoration -> listeners added at line 66
  markerListeners,      \* decoration -> listeners added at line 67
  \* observation
  created,              \* decoration -> elements created for it
  disposeFired,         \* decoration -> firings of its disposal signal
  renderLog,            \* onRenderEmitter firings of the last refresh pass
  queueCalls,           \* _queueRefresh calls since the last frame (saturating)
  requestsBefore,       \* queueCalls when the last frame began
  bodyRuns,             \* refresh bodies run by the last frame
  requestedInBody,      \* the refresh body of the last operation called _queueRefresh
  hadElement,           \* the decoration of the last operation was mapped before it
  afterPass,            \* the last operation was a refresh pass that followed a refresh pass
  hiddenBy,             \* hidden mapped decoration -> the rule that hid it: "viewport", "alt"
  restored,             \* <<d, rule>>: the last operation made d visible, hidden by rule before
  disposeCalls,         \* calls of dispose() so far
  lastOp,               \* the operation that led to this state
  lastDec               \* the decoration that operation was about (0: none)

vars == << containerAttached, decorationElements, animationFrame, altBufferIsActive,
           listening, rafCallbacks, containerChildren, style, ydisp, bufferIsAlt,
           decorations, registered, isDisposed, markerDisposed, markerLine, options,
           element, onDisposeListeners, markerListeners, created, disposeFired,
           renderLog, queueCalls, requestsBefore, bodyRuns, requestedInBody, hadElement,
           afterPass, hiddenBy, restored, disposeCalls, lastOp, lastDec >>

\* The state as one record, so that a handler is a function from state to state.
State ==
  [ containerAttached |-> containerAttached, decorationElements |-> decorationElements,
    animationFrame |-> animationFrame, altBufferIsActive |-> altBufferIsActive,
    listening |-> listening, rafCallbacks |-> rafCallbacks,
    containerChildren |-> containerChildren, style |-> style, ydisp |-> ydisp,
    bufferIsAlt |-> bufferIsAlt, decorations |-> decorations, registered |-> registered,
    isDisposed |-> isDisposed, markerDisposed |-> markerDisposed,
    markerLine |-> markerLine, options |-> options, element |-> element,
    onDisposeListeners |-> onDisposeListeners, markerListeners |-> markerListeners,
    created |-> created, disposeFired |-> disposeFired, renderLog |-> renderLog,
    queueCalls |-> queueCalls, requestsBefore |-> requestsBefore, bodyRuns |-> bodyRuns,
    requestedInBody |-> requestedInBody, hadElement |-> hadElement,
    afterPass |-> afterPass,
    hiddenBy |-> hiddenBy, restored |-> restored,
    disposeCalls |-> disposeCalls, lastOp |-> lastOp, lastDec |-> lastDec ]

Becomes(t) ==
  /\ containerAttached' = t.containerAttached
  /\ decorationElements' = t.decorationElements
  /\ animationFrame' = t.animationFrame
  /\ altBufferIsActive' = t.altBufferIsActive
  /\ listening' = t.listening
  /\ rafCallbacks' = t.rafCallbacks
  /\ containerChildren' = t.containerChildren
  /\ style' = t.style
  /\ ydisp' = t.ydisp
  /\ bufferIsAlt' = t.bufferIsAlt
  /\ decorations' = t.decorations
  /\ registered' = t.registered
  /\ isDisposed' = t.isDisposed
  /\ markerDisposed' = t.markerDisposed
  /\ markerLine' = t.markerLine
  /\ options' = t.options
  /\ element' = t.element
  /\ onDisposeListeners' = t.onDisposeListeners
  /\ markerListeners' = t.markerListeners
  /\ created' = t.created
  /\ disposeFired' = t.disposeFired
  /\ renderLog' = t.renderLog
  /\ queueCalls' = t.queueCalls
  /\ requestsBefore' = t.requestsBefore
  /\ bodyRuns' = t.bodyRuns
  /\ requestedInBody' = t.requestedInBody
  /\ hadElement' = t.hadElement
  /\ afterPass' = t.afterPass
  /\ hiddenBy' = t.hiddenBy
  /\ restored' = t.restored
  /\ disposeCalls' = t.disposeCalls
  /\ lastOp' = t.lastOp
  /\ lastDec' = t.lastDec

\* The state after the constructor (lines 13-38): an attached, empty container,
\* every listener registered, no frame requested.
Init ==
  /\ containerAttached = TRUE
  /\ decorationElements = EmptyMap
  /\ animationFrame = FALSE
  /\ altBufferIsActive = FALSE
  /\ listening = TRUE
  /\ rafCallbacks = 0
  /\ containerChildren = {}
  /\ style = EmptyMap
  /\ ydisp \in YDisps
  /\ bufferIsAlt = FALSE
  /\ decorations = << >>
  /\ registered = [d \in Decorations |-> FALSE]
  /\ isDisposed = [d \in Decorations |-> FALSE]
  /\ markerDisposed = [d \in Decorations |-> FALSE]
  /\ markerLine = [d \in Decorations |-> 0]
  /\ options = [d \in Decorations |-> NoOptions]
  /\ element = [d \in Decorations |-> Undefined]
  /\ onDisposeListeners = [d \in Decorations |-> 0]
  /\ markerListeners = [d \in Decorations |-> 0]
  /\ created = [d \in Decorations |-> 0]
  /\ disposeFired = [d \in Decorations |-> 0]
  /\ renderLog = << >>
  /\ queueCalls = 0
  /\ requestsBefore = 0
  /\ bodyRuns = 0
  /\ requestedInBody = FALSE
  /\ hadElement = FALSE
  /\ afterPass = FALSE
  /\ hiddenBy = EmptyMap
  /\ restored = {}
  /\ disposeCalls = 0
  /\ lastOp = "constructor"
  /\ lastDec = 0

\* ---------------------------------------------------------------- handlers
\* The state in which an operation begins: what is recorded about the last
\* operation is reset, the rest is the current state.
Begin(op, d) ==
  [State EXCEPT !.lastOp = op, !.lastDec = d, !.renderLog = << >>,
                !.requestsBefore = 0, !.bodyRuns = 0, !.requestedInBody = FALSE,
                !.restored = {}, !.afterPass = FALSE,
                !.hadElement = d \in DOMAIN decorationElements]

\* _queueRefresh without the early return of lines 47-49.
QueueRefresh_unguarded(s) ==
  [s EXCEPT !.queueCalls = Min(@ + 1, MaxCount),
            !.animationFrame = TRUE, !.rafCallbacks = @ + 1]

\* _queueRefresh that marks a refresh pending without requesting the frame.
QueueRefresh_noCallback(s) ==
  [s EXCEPT !.queueCalls = Min(@ + 1, MaxCount), !.animationFrame = TRUE]

\* _queueRefresh (lines 46-54): request a frame callback unless one is pending.
QueueRefresh(s) ==
  LET c == [s EXCEPT !.queueCalls = Min(@ + 1, MaxCount)] IN
  IF c.animationFrame
    THEN c
    ELSE [c EXCEPT !.animationFrame = TRUE, !.rafCallbacks = @ + 1]

\* `options.width || 1` (lines 79-80): undefined and 0 both give 1.
OrOne(v) == IF v = Undefined \/ v = Some(0) THEN 1 ELSE v[1]

\* `options.x ?? 0` (line 84).
OrZero(v) == IF v = Undefined THEN 0 ELSE v[1]

\* The pixel offset `x ? x * actualCellWidth + "px" : ""` (lines 90, 92).
Offset(x) == IF x # 0 THEN Some(x * CellWidth) ELSE Undefined

\* _createElement (lines 76-96): the style of the new element.
CreateElement(s, d) ==
  LET x == OrZero(s.options[d].x) IN
  [ width      |-> OrOne(s.options[d].width) * CellWidth,
    height     |-> OrOne(s.options[d].height) * CellHeight,
    top        |-> (s.markerLine[d] - s.ydisp) * CellHeight,
    lineHeight |-> CellHeight,
    display    |-> IF x # 0 /\ x > Cols THEN "none" ELSE "",
    right      |-> IF s.options[d].anchor = "right" THEN Offset(x) ELSE Undefined,
    left       |-> IF s.options[d].anchor = "right" THEN Undefined ELSE Offset(x) ]

\* The line of a decoration relative to the viewport (line 99).
Line(s, d) == s.markerLine[d] - s.ydisp

\* _refreshStyle that hides but never shows again (line 105 without 'block').
RefreshStyle_neverShows(s, d, e) ==
  LET line == Line(s, d) IN
  IF line < 0 \/ line >= Rows
    THEN [s EXCEPT !.style[e].display = "none",
                   !.hiddenBy = (d :> "viewport") @@ @]
    ELSE [s EXCEPT !.style[e].top = line * CellHeight,
                   !.style[e].display = IF s.altBufferIsActive THEN "none" ELSE @,
                   !.hiddenBy = IF s.altBufferIsActive THEN (d :> "alt") @@ @ ELSE @]

\* _refreshStyle without the assignment of style.top (line 104).
RefreshStyle_staleTop(s, d, e) ==
  LET line == Line(s, d) IN
  IF line < 0 \/ line >= Rows
    THEN [s EXCEPT !.style[e].display = "none",
                   !.hiddenBy = (d :> "viewport") @@ @]
    ELSE [s EXCEPT !.style[e].display = IF s.altBufferIsActive THEN "none" ELSE "block",
                   !.hiddenBy = IF s.altBufferIsActive THEN (d :> "alt") @@ @
                                ELSE Without(@, d),
                   !.restored = IF ~s.altBufferIsActive /\ d \in DOMAIN s.hiddenBy
                                  THEN @ \cup {<<d, s.hiddenBy[d]>>} ELSE @]

\* _refreshStyle (lines 98-107).
RefreshStyle(s, d, e) ==
  LET line == Line(s, d) IN
  IF line < 0 \/ line >= Rows
    THEN [s EXCEPT !.style[e].display = "none",
                   !.hiddenBy = (d :> "viewport") @@ @]
    ELSE [s EXCEPT !.style[e].top = line * CellHeight,
                   !.style[e].display = IF s.altBufferIsActive THEN "none" ELSE "block",
                   !.hiddenBy = IF s.altBufferIsActive THEN (d :> "alt") @@ @
                                ELSE Without(@, d),
                   !.restored = IF ~s.altBufferIsActive /\ d \in DOMAIN s.hiddenBy
                                  THEN @ \cup {<<d, s.hiddenBy[d]>>} ELSE @]

\* _removeDecoration without the delete of line 111.
RemoveDecoration_keepsEntry(s, d) ==
  IF d \in DOMAIN s.decorationElements
    THEN [s EXCEPT !.containerChildren = @ \ {s.decorationElements[d]}]
    ELSE s

\* _removeDecoration without the element.remove() of line 110.
RemoveDecoration_keepsChild(s, d) ==
  IF d \in DOMAIN s.decorationElements
    THEN [s EXCEPT !.style = Without(@, s.decorationElements[d]),
                   !.decorationElements = Without(@, d),
                   !.hiddenBy = Without(@, d)]
    ELSE s

\* _removeDecoration that clears the whole map instead of deleting one entry.
RemoveDecoration_clearsMap(s, d) ==
  IF d \in DOMAIN s.decorationElements
    THEN [s EXCEPT !.containerChildren = @ \ {s.decorationElements[d]},
                   !.style = Without(@, s.decorationElements[d]),
                   !.decorationElements = EmptyMap,
                   !.hiddenBy = EmptyMap]
    ELSE s

\* _removeDecoration (lines 109-112).
RemoveDecoration(s, d) ==
  IF d \in DOMAIN s.decorationElements
    THEN [s EXCEPT !.containerChildren = @ \ {s.decorationElements[d]},
                   !.style = Without(@, s.decorationElements[d]),
                   !.decorationElements = Without(@, d),
                   !.hiddenBy = Without(@, d)]
    ELSE s

\* The registry adds a decoration at the end of its list and fires
\* onDecorationRegistered, whose listener (line 36) requests a refresh.
RegisterDecoration(s, d, line, opts) ==
  LET r == [s EXCEPT !.registered[d] = TRUE, !.markerLine[d] = line,
                     !.options[d] = opts, !.decorations = Append(@, d)] IN
  IF r.listening THEN QueueRefresh(r) ELSE r

\* The decoration the registry hands out next.
HasFresh(s) == \E d \in Decorations : ~s.registered[d]
Fresh(s) == CHOOSE d \in Decorations :
              ~s.registered[d] /\ \A c \in Decorations : c < d => s.registered[c]

\* decoration.onRenderEmitter.fire(element) (line 73). A render hook of the
\* embedder runs here; h.registers names the decorations whose hook registers
\* a further decoration. The log keeps the payload and what the element's
\* display was when the notification fired.
FireOnRender(s, d, e, h) ==
  LET f == [s EXCEPT !.renderLog =
              Append(@, [dec |-> d, element |-> e, display |-> s.style[e].display])] IN
  IF d \in h.registers /\ HasFresh(f)
    THEN RegisterDecoration(f, Fresh(f), h.line, h.opts)
    ELSE f

\* _renderDecoration that ignores the map and creates an element every time.
RenderDecoration_alwaysCreates(s, d, h) ==
  LET e == <<d, s.created[d] + 1>>
      c == [s EXCEPT !.style = (e :> CreateElement(s, d)) @@ @,
                     !.created[d] = @ + 1,
                     !.onDisposeListeners[d] = @ + 1,
                     !.markerListeners[d] = @ + 1,
                     !.element[d] = Some(e),
                     !.decorationElements = (d :> e) @@ @,
                     !.containerChildren = @ \cup {e}]
  IN FireOnRender(RefreshStyle(c, d, e), d, e, h)

\* _renderDecoration that fires the render notification before the style
\* refresh (lines 72 and 73 swapped).
RenderDecoration_firesFirst(s, d, h) ==
  LET has == d \in DOMAIN s.decorationElements
      e == IF has THEN s.decorationElements[d] ELSE <<d, s.created[d] + 1>>
      c == IF has THEN s
           ELSE [s EXCEPT !.style = (e :> CreateElement(s, d)) @@ @,
                          !.created[d] = @ + 1,
                          !.onDisposeListeners[d] = @ + 1,
                          !.markerListeners[d] = @ + 1,
                          !.element[d] = Some(e),
                          !.decorationElements = (d :> e) @@ @,
                          !.containerChildren = @ \cup {e}]
  IN RefreshStyle(FireOnRender(c, d, e, h), d, e)

\* _renderDecoration that never appends the new element to the container
\* (line 70 left out).
RenderDecoration_noAppend(s, d, h) ==
  LET has == d \in DOMAIN s.decorationElements
      e == IF has THEN s.decorationElements[d] ELSE <<d, s.created[d] + 1>>
      c == IF has THEN s
           ELSE [s EXCEPT !.style = (e :> CreateElement(s, d)) @@ @,
                          !.created[d] = @ + 1,
                          !.onDisposeListeners[d] = @ + 1,
                          !.markerListeners[d] = @ + 1,
                          !.element[d] = Some(e),
                          !.decorationElements = (d :> e) @@ @]
  IN FireOnRender(RefreshStyle(c, d, e), d, e, h)

\* _renderDecoration (lines 62-74).
RenderDecoration(s, d, h) ==
  LET has == d \in DOMAIN s.decorationElements
      e == IF has THEN s.decorationElements[d] ELSE <<d, s.created[d] + 1>>
      c == IF has THEN s
           ELSE [s EXCEPT !.style = (e :> CreateElement(s, d)) @@ @,
                          !.created[d] = @ + 1,
                          !.onDisposeListeners[d] = @ + 1,
                          !.markerListeners[d] = @ + 1,
                          !.element[d] = Some(e),
                          !.decorationElements = (d :> e) @@ @,
                          !.containerChildren = @ \cup {e}]
  IN FireOnRender(RefreshStyle(c, d, e), d, e, h)

\* The loop of refreshDecorations (lines 57-59) from position i of the
\* registry's list; a decoration appended during the loop is visited by it.
RECURSIVE RenderFrom(_, _, _)
RenderFrom(s, i, h) ==
  IF i > Len(s.decorations)
    THEN s
    ELSE RenderFrom(RenderDecoration(s, s.decorations[i], h), i + 1, h)

\* refreshDecorations that also clears the pending frame, as the frame
\* callback does at line 52.
RefreshDecorations_clearsFrame(s, h) ==
  [RenderFrom([s EXCEPT !.renderLog = << >>], 1, h) EXCEPT !.animationFrame = FALSE]

\* refreshDecorations (lines 56-60).
RefreshDecorations(s, h) == RenderFrom([s EXCEPT !.renderLog = << >>], 1, h)

\* The frame callback (lines 50-53).
FrameCallback(s, h) == [RefreshDecorations(s, h) EXCEPT !.animationFrame = FALSE]

\* The host runs the n callbacks that were requested before this frame.
RECURSIVE RunCallbacks(_, _, _)
RunCallbacks(s, n, h) ==
  IF n = 0 THEN s ELSE RunCallbacks(FrameCallback(s, h), n - 1, h)

\* decoration.dispose(): the first call fires the disposal signal. Its
\* listeners are the renderer's (line 66) and the registry's, which takes the
\* decoration off its list and fires onDecorationRemoved (listener: line 37).
DecorationDispose(s, d) ==
  IF s.isDisposed[d] THEN s
  ELSE
    LET f == [s EXCEPT !.isDisposed[d] = TRUE,
                       !.disposeFired[d] = Min(@ + 1, MaxCount),
                       \* nothing reads these of a disposed decoration
                       !.markerLine[d] = 0,
                       !.options[d] = NoOptions]
        r == IF f.onDisposeListeners[d] > 0 THEN RemoveDecoration(f, d) ELSE f
        g == [r EXCEPT !.decorations = SelectSeq(@, LAMBDA c : c # d)]
    IN IF g.listening THEN RemoveDecoration(g, d) ELSE g

\* A marker listener that removes the element itself instead of disposing
\* the decoration.
OnMarkerDispose_removesOnly(s, d) == RemoveDecoration(s, d)

\* The listener the renderer puts on the marker (line 67).
OnMarkerDispose(s, d) == DecorationDispose(s, d)

\* marker.dispose(): runs the n listeners on the marker.
RECURSIVE RunMarkerListeners(_, _, _)
RunMarkerListeners(s, d, n) ==
  IF n = 0 THEN s ELSE RunMarkerListeners(OnMarkerDispose(s, d), d, n - 1)

\* dispose without the clear of line 42.
DisposeRenderer_noClear(s) ==
  [s EXCEPT !.containerAttached = FALSE, !.listening = FALSE]

\* dispose (lines 40-44); super.dispose() releases the registered listeners.
\* The elements stay children of the removed container; their styles, which
\* nothing reaches once the map is cleared, are dropped from the state.
DisposeRenderer(s) ==
  [s EXCEPT !.containerAttached = FALSE,
            !.decorationElements = EmptyMap,
            !.style = EmptyMap,
            !.hiddenBy = EmptyMap,
            !.listening = FALSE]

\* ----------------------------------------------------------------- actions
\* The last operation ran the refresh body.
IsPass == lastOp = "refreshDecorations" \/ (lastOp = "frame" /\ bodyRuns >= 1)

\* The render hooks a refresh pass can meet: no hook registers a decoration, or
\* the hooks of some live decorations register one each, while the registry
\* has a decoration left to hand out.
NoHooks == [registers |-> {}, line |-> 1, opts |-> NoOptions]
Hooks ==
  {NoHooks} \cup
  IF HasFresh(State) /\ decorations # << >>
    THEN [registers : SUBSET {decorations[i] : i \in 1 .. Len(decorations)} \ {{}},
          line : MarkerLines, opts : OptionSets]
    ELSE {}

\* The registry registers a decoration (listener: line 36).
Register ==
  /\ HasFresh(State)
  /\ \E line \in MarkerLines, opts \in OptionSets :
       Becomes(RegisterDecoration(Begin("register", Fresh(State)),
                                  Fresh(State), line, opts))

\* onRenderedBufferChange (line 30).
RenderedBufferChange ==
  /\ listening
  /\ Becomes(QueueRefresh(Begin("onRenderedBufferChange", 0)))

\* onDimensionsChange (line 31).
DimensionsChange ==
  /\ listening
  /\ Becomes(QueueRefresh(Begin("onDimensionsChange", 0)))

\* The window's resize event (line 32).
WindowResize ==
  /\ listening
  /\ Becomes(QueueRefresh(Begin("resize", 0)))

\* onBufferActivate (lines 33-35): the buffer set switches the active buffer.
BufferActivate ==
  /\ listening
  /\ \E alt \in BOOLEAN :
       Becomes([Begin("onBufferActivate", 0) EXCEPT !.bufferIsAlt = alt,
                                                    !.altBufferIsActive = alt])

\* The buffer scrolls: buffers.active.ydisp changes.
Scroll ==
  \E y \in YDisps \ {ydisp} : Becomes([Begin("scroll", 0) EXCEPT !.ydisp = y])

\* A decoration is disposed by its owner.
DisposeDecoration ==
  \E i \in 1 .. Len(decorations) :
    Becomes(DecorationDispose(Begin("decoration.dispose", decorations[i]),
                              decorations[i]))

\* The marker of a decoration is disposed (its line left the buffer).
DisposeMarker ==
  \E i \in 1 .. Len(decorations) :
    LET d == decorations[i] IN
    /\ ~markerDisposed[d]
    /\ Becomes(RunMarkerListeners(
                 [Begin("marker.dispose", d) EXCEPT !.markerDisposed[d] = TRUE],
                 d, markerListeners[d]))

\* A direct call of refreshDecorations().
Refresh ==
  \E h \in Hooks :
    LET a == RefreshDecorations([Begin("refreshDecorations", 0) EXCEPT !.queueCalls = 0], h)
    IN Becomes([a EXCEPT !.afterPass = IsPass,
                         !.requestedInBody = a.queueCalls > 0,
                         !.queueCalls = Min(queueCalls + a.queueCalls, MaxCount)])

\* The host's next frame: it runs the callbacks requested since the last one.
Frame ==
  \E h \in Hooks :
    LET b == [Begin("frame", 0) EXCEPT !.rafCallbacks = 0, !.queueCalls = 0]
        a == RunCallbacks(b, rafCallbacks, h)
    IN Becomes([a EXCEPT !.requestsBefore = queueCalls,
                         !.bodyRuns = Min(rafCallbacks, MaxCount),
                         !.requestedInBody = a.queueCalls > 0,
                         !.afterPass = IsPass /\ rafCallbacks >= 1,
                         !.queueCalls = 0])

\* dispose().
Dispose ==
  /\ disposeCalls < MaxDisposeCalls
  /\ Becomes([DisposeRenderer(Begin("dispose", 0)) EXCEPT !.disposeCalls = @ + 1])

Next ==
  \/ Register
  \/ RenderedBufferChange
  \/ DimensionsChange
  \/ WindowResize
  \/ BufferActivate
  \/ Scroll
  \/ DisposeDecoration
  \/ DisposeMarker
  \/ Refresh
  \/ Frame
  \/ Dispose

Spec == Init /\ [][Next]_vars

\* The host runs the outstanding callback (line 50).  No code path cancels a
\* requested frame, so under [][Next]_vars the steps that take rafCallbacks
\* back to 0 are the steps of Frame that run a callback.
FiresCallback == rafCallbacks > 0 /\ rafCallbacks' = 0

\* The host eventually runs every callback it was asked for.
LiveSpec == Init /\ [][Next]_vars /\ WF_rafCallbacks(FiresCallback)

\* ------------------------------------------------------------------- types
TypeOK ==
  /\ containerAttached \in BOOLEAN
  /\ animationFrame \in BOOLEAN
  /\ rafCallbacks \in 0 .. 1
  /\ DOMAIN decorationElements \subseteq Decorations
  /\ \A i \in 1 .. Len(decorations) : decorations[i] \in Decorations

\* ------------------------------------------------------------------ claims
Live == {decorations[i] : i \in 1 .. Len(decorations)}
Mapped == DOMAIN decorationElements

InViewport(d) == markerLine[d] - ydisp >= 0 /\ markerLine[d] - ydisp < Rows
Display(d) == style[decorationElements[d]].display
Overflows(d) == OrZero(options[d].x) > 0 /\ OrZero(options[d].x) > Cols

\* C1: after a frame whose refresh body called _queueRefresh, exactly one
\* frame callback is scheduled for a later frame.
C1_RequestInBodySchedulesOne ==
  (lastOp = "frame" /\ requestedInBody) => (rafCallbacks = 1 /\ animationFrame)

\* C2: when a frame fires after N >= 1 calls of _queueRefresh made since the
\* previous frame, it runs the refresh body exactly once.
C2_RequestsCoalesce ==
  (lastOp = "frame" /\ requestsBefore >= 1) => bodyRuns = 1

C2_Witness == lastOp = "frame" /\ requestsBefore >= 2 /\ bodyRuns = 1

\* C3: after a refresh pass, from the frame callback or from a direct call, a
\* decoration has an entry in the element map iff it is live in the registry.
C3_MappedIffLive == IsPass => Mapped = Live

C3_Witness ==
  /\ IsPass
  /\ Mapped = Live
  /\ Live # {}
  /\ \E d \in Decorations : isDisposed[d] /\ element[d] # Undefined /\ d \notin Mapped

\* C4: the element of a decoration whose x is positive and beyond the column
\* count is hidden, when created and after every refresh pass.
C4_OverflowStaysHidden ==
  \A d \in Mapped : Overflows(d) => Display(d) = "none"

\* C5: after the handler of buffer-render-changed, dimensions-changed,
\* window-resize or buffer-activated, a refresh is pending.
C5_EventSchedulesRefresh ==
  lastOp \in {"onRenderedBufferChange", "onDimensionsChange", "resize", "onBufferActivate"}
    => (animationFrame /\ rafCallbacks = 1)

\* C6: a refresh pass under the alt-buffer flag leaves every mapped decoration
\* in the viewport hidden; a pass with the flag off makes every element the
\* flag had hidden visible again, in the viewport, and keeps it the element
\* of its decoration.
C6_AltBufferHides ==
  [][ /\ (IsPass' /\ altBufferIsActive')
         => \A d \in Mapped' : InViewport(d)' => Display(d)' = "none"
      /\ (IsPass' /\ ~altBufferIsActive')
         => \A d \in DOMAIN hiddenBy :
              (hiddenBy[d] = "alt" /\ d \in Live' /\ InViewport(d)')
                => /\ d \in Mapped'
                   /\ decorationElements'[d] = decorationElements[d]
                   /\ Display(d)' = "block"
                   /\ created'[d] = created[d] ]_vars

C6_Witness ==
  /\ IsPass
  /\ ~altBufferIsActive
  /\ \E d \in Mapped : <<d, "alt">> \in restored /\ Display(d) = "block"

\* C7: after a refresh pass the element of a decoration whose line is outside
\* [0, Rows) is hidden, and with the alt-buffer flag off the element of one
\* whose line is inside is visible at top = line * cell height.
C7_ViewportClipping ==
  IsPass =>
    \A d \in Mapped :
      /\ ~InViewport(d) => Display(d) = "none"
      /\ (InViewport(d) /\ ~altBufferIsActive)
           => /\ Display(d) = "block"
              /\ style[decorationElements[d]].top = (markerLine[d] - ydisp) * CellHeight

C7_Witness ==
  /\ IsPass
  /\ \E d \in Mapped :
       /\ <<d, "viewport">> \in restored
       /\ Display(d) = "block"
       /\ style[decorationElements[d]].top = (markerLine[d] - ydisp) * CellHeight

\* C8: a frame callback that runs after dispose() creates no element and
\* leaves the element map empty.
C8_LateCallbackIsNoOp ==
  (lastOp = "frame" /\ bodyRuns >= 1 /\ ~listening)
    => (decorationElements = EmptyMap /\ renderLog = << >>)

\* C9: right after dispose() the element map is empty and the container is
\* not a child of the screen element.
C9_DisposeClears ==
  lastOp = "dispose" => (decorationElements = EmptyMap /\ ~containerAttached)

C9_Witness ==
  /\ lastOp = "dispose"
  /\ decorationElements = EmptyMap
  /\ \E d \in Live : created[d] >= 1 /\ element[d][1] \in containerChildren

\* C10: disposing the marker of a decoration that has an element fires the
\* decoration's disposal signal exactly once, and then the decoration has no
\* map entry and its element is not a child of the container.
C10_MarkerDisposeCascade ==
  (lastOp = "marker.dispose" /\ hadElement)
    => /\ disposeFired[lastDec] = 1
       /\ lastDec \notin Mapped
       /\ element[lastDec][1] \notin containerChildren

C10_Witness ==
  /\ lastOp = "marker.dispose"
  /\ hadElement
  /\ disposeFired[lastDec] = 1
  /\ lastDec \notin Live

\* C11: a refresh pass that directly follows a refresh pass creates no element
\* for a decoration that was live before it and keeps every map entry; when
\* the registry does not change during it, it creates no element at all.
C11_SecondPassReuses ==
  [][ (IsPass /\ IsPass')
        => /\ \A d \in Live : /\ d \in Mapped /\ d \in Mapped'
                              /\ decorationElements'[d] = decorationElements[d]
                              /\ created'[d] = created[d]
           /\ decorations' = decorations
                => (created' = created /\ decorationElements' = decorationElements
                    /\ containerChildren' = containerChildren) ]_vars

C11_Witness == IsPass /\ afterPass /\ Mapped # {} /\ \A d \in Live : created[d] = 1

\* C12 as claimed: a direct call of refreshDecorations() runs the full pass
\* and leaves the pending-refresh flag and the requested callbacks unchanged.
C12_DirectRefreshLeavesFlag ==
  [][ lastOp' = "refreshDecorations"
        => /\ Mapped' = Live'
           /\ animationFrame' = animationFrame
           /\ rafCallbacks' = rafCallbacks ]_vars

\* C12, amended: a direct call of refreshDecorations() runs the full pass
\* whether or not a refresh is pending; a pending callback stays pending, and
\* the flag changes only when the body itself calls _queueRefresh (a render
\* hook registers a decoration) while none is pending, which requests one.
C12_DirectRefreshBypasses ==
  [][ lastOp' = "refreshDecorations"
        => /\ Mapped' = Live'
           /\ animationFrame => (animationFrame' /\ rafCallbacks' = rafCallbacks)
           /\ ~requestedInBody'
                => (animationFrame' = animationFrame /\ rafCallbacks' = rafCallbacks)
           /\ (requestedInBody' /\ ~animationFrame)
                => (animationFrame' /\ rafCallbacks' = rafCallbacks + 1) ]_vars

C12_Witness ==
  /\ lastOp = "refreshDecorations"
  /\ ~requestedInBody
  /\ animationFrame
  /\ rafCallbacks = 1
  /\ Mapped # {}

\* The state of the renderer, the host and the registry, without what is
\* only recorded about the operations.
ProgramState ==
  << containerAttached, decorationElements, animationFrame, altBufferIsActive,
     listening, rafCallbacks, containerChildren, style, ydisp, bufferIsAlt,
     decorations, registered, isDisposed, markerDisposed, markerLine, options,
     element, onDisposeListeners, markerListeners >>

RefreshEvents == {"onRenderedBufferChange", "onDimensionsChange", "resize"}

\* C13: at most one frame callback is outstanding, and it is outstanding
\* exactly while _animationFrame is set; a refresh request that arrives while
\* one is pending changes nothing.
C13_OneCallbackOutstanding ==
  [][ /\ rafCallbacks <= 1 /\ rafCallbacks' <= 1
      /\ animationFrame' <=> rafCallbacks' = 1
      /\ (lastOp' \in RefreshEvents /\ animationFrame)
           => ProgramState' = ProgramState ]_vars

C13_Witness ==
  /\ lastOp \in RefreshEvents
  /\ queueCalls >= 2
  /\ animationFrame
  /\ rafCallbacks = 1

\* A removed decoration is off the registry's list, has no map entry, had its
\* disposal signal fired once, and its element is not a child of the
\* container on the screen.
RemovedIsGone(d) ==
  isDisposed[d]
    => /\ d \notin Live
       /\ d \notin Mapped
       /\ disposeFired[d] = 1
       /\ (containerAttached /\ element[d] # Undefined)
            => element[d][1] \notin containerChildren

\* C14: removal is terminal. A removed decoration stays removed, and in no
\* state from its removal on, whatever refresh passes run, does it have a map
\* entry or an element in the container shown on the screen.
C14_RemovedIsTerminal ==
  [][ \A d \in Decorations :
        /\ RemovedIsGone(d)
        /\ RemovedIsGone(d)'
        /\ isDisposed[d] => isDisposed'[d] ]_vars

C14_Witness ==
  /\ IsPass
  /\ containerAttached
  /\ Live # {}
  /\ \E d \in Decorations : isDisposed[d] /\ element[d] # Undefined

\* C15: the element of a decoration is (options.width ?? 1) cells wide and
\* (options.height ?? 1) cells high: the default 1 stands in only for an
\* absent option, never for 0.
C15_SizeDefaultsOnlyWhenAbsent ==
  \A d \in Mapped :
    LET w == IF options[d].width = Undefined THEN 1 ELSE options[d].width[1]
        h == IF options[d].height = Undefined THEN 1 ELSE options[d].height[1]
    IN /\ style[decorationElements[d]].width = w * CellWidth
       /\ style[decorationElements[d]].height = h * CellHeight

\* C16: in a refresh pass every live decoration gets exactly one render
\* notification, and no other decoration gets one; its payload is the element
\* the decoration is mapped to, and it fires after the style refresh: the
\* element's display at that moment is the one the pass leaves.
C16_OneRenderNotification ==
  IsPass =>
    /\ Len(renderLog) = Cardinality(Live)
    /\ \A d \in Live :
         \E i \in 1 .. Len(renderLog) :
           /\ renderLog[i].dec = d
           /\ \A j \in 1 .. Len(renderLog) : renderLog[j].dec = d => j = i
           /\ d \in Mapped
           /\ renderLog[i].element = decorationElements[d]
           /\ renderLog[i].display = Display(d)
           /\ Display(d) \in {"none", "block"}

C16_Witness ==
  /\ IsPass
  /\ Len(renderLog) = 2
  /\ requestedInBody
  /\ renderLog[2].element = decorationElements[renderLog[2].dec]
  /\ created[renderLog[2].dec] = 1

RemovalOps == {"decoration.dispose", "marker.dispose"}

\* C17: _removeDecoration of a decoration without a map entry changes nothing,
\* and applying it twice gives what applying it once gives; the removal of a
\* decoration requests no refresh, leaves the map entries of the other
\* decorations alone and, when the decoration had no element, leaves the map
\* and the container's children as they were.
C17_RemovalIsIdempotent ==
  [][ /\ \A d \in Decorations :
           /\ RemoveDecoration(RemoveDecoration(State, d), d) = RemoveDecoration(State, d)
           /\ d \notin Mapped => RemoveDecoration(State, d) = State
      /\ lastOp' \in RemovalOps
           => /\ animationFrame' = animationFrame
              /\ rafCallbacks' = rafCallbacks
              /\ \A c \in Mapped \ {lastDec'} :
                   c \in Mapped' /\ decorationElements'[c] = decorationElements[c]
              /\ ~hadElement'
                   => /\ decorationElements' = decorationElements
                      /\ containerChildren' = containerChildren ]_vars

C17_Witness ==
  /\ lastOp = "decoration.dispose"
  /\ ~hadElement
  /\ isDisposed[lastDec]
  /\ Mapped # {}

\* C18: when the host keeps firing frames, a decoration that is live while the
\* renderer listens gets an element in the map, unless it leaves the registry
\* or the renderer is disposed first.
C18_RegisteredGetsElement ==
  \A d \in Decorations :
    (d \in Live /\ listening) ~> (d \in Mapped \/ d \notin Live \/ ~listening)

C18_Witness ==
  /\ lastOp = "frame"
  /\ requestedInBody
  /\ listening
  /\ Cardinality(Live) = 2
  /\ Mapped = Live

\* C19: until dispose() is called, the children of the container are exactly
\* the elements the map holds, and no two decorations share an element.
C19_ChildrenAreMapValues ==
  disposeCalls = 0 =>
    /\ containerChildren = {decorationElements[d] : d \in Mapped}
    /\ \A d1, d2 \in Mapped :
         decorationElements[d1] = decorationElements[d2] => d1 = d2

\* One of two attached elements has just been removed with its decoration.
C19_Witness ==
  /\ disposeCalls = 0
  /\ lastOp \in RemovalOps
  /\ hadElement
  /\ Cardinality(containerChildren) = 1
  /\ Cardinality(Mapped) = 1

\* C20: whatever events, refresh passes and dispose() calls have happened, a
\* decoration has had at most one element created for it and carries at most
\* one disposal listener of the renderer on itself and one on its marker.
C20_WiredAndCreatedOnce ==
  \A d \in Decorations :
    /\ created[d] <= 1
    /\ onDisposeListeners[d] <= 1
    /\ markerListeners[d] <= 1

====
